---------------------------- MODULE Spec2Model ----------------------------
(* Model of the reverse-index block (package index, type block):          *)
(* its Closed/Open/Sealed life cycle, the write, query, bootstrap, tick,  *)
(* seal, evict and close operations, and the background rotator that      *)
(* merges sealed mutable segments into FST segments.                      *)
(*                                                                        *)
(* Every foreground operation takes the block lock on entry and releases  *)
(* it by defer on return, so each one is a single atomic action.  The     *)
(* rotator takes the lock twice per pass (selection, swap) and runs the   *)
(* merge / seal / transform phases without it: it is modelled as one      *)
(* action per phase.  Every state of the model is therefore a state in    *)
(* which no operation holds the block lock.                               *)
EXTENDS Integers, Sequences, FiniteSets, TLC

\* ------------------------------------------------------------------ bounds
MaxDocs == 2        \* documents ever inserted through WriteBatch
MaxSegs == 4        \* segments ever allocated (active, merged FST, bootstrap)
MaxBatch == 2       \* entries in one write batch
MaxRecords == 2     \* bootstrap records held at once
MaxBootSegs == 1    \* segments carried by one bootstrap record
MaxLimit == 2       \* largest query limit tried
MaxFailAt == 2      \* latest collaborator call of a query that is made to fail
MaxPassDocs == 4    \* documents written one by one against the rotator

\* ------------------------------------------------- constants of the block
\* thresholds of the source, scaled down to the document bound
defaultMutableSegmentRotationSize == 1
defaultMutableSegmentRotationMergeSize == 3

\* the block covers [startTime, endTime) on a small integer time line
startTime == 1
blockSize == 2
endTime == startTime + blockSize
Shards == {"A", "B"}

VARIABLES
  state,                \* blockState: "Open", "Sealed", "Closed"
  segs,                 \* every segment ever allocated, by id (heap)
  activeSegments,       \* sequence of [seg, state] (the *activeSegment's)
  shardRangesSegments,  \* sequence of [shardTimeRanges, segments]
  rotateCh,             \* number of signals buffered in rotateCh (0 or 1)
  closeCtxDone,         \* closeCtx has been cancelled
  rotPc,                \* position of the monitorRotations goroutine
  rotSel,               \* activeSegmentsToRotate / segmentsToRotate
  rotMerged,            \* documents of mergedMutableSegment
  rotNew,               \* id of the fstSegment built by this pass (0: none)
  reportPc,             \* position of the reportMetrics goroutine
  lock,                 \* the block's RWMutex between steps: "free" or holder
  nextDoc,              \* documents inserted so far (they are 1..nextDoc)
  evicted,              \* history: EvictActiveSegments has succeeded
  lastOp                \* last foreground call: name, arguments, results

vars == <<state, segs, activeSegments, shardRangesSegments, rotateCh,
          closeCtxDone, rotPc, rotSel, rotMerged, rotNew, reportPc, lock,
          nextDoc, evicted, lastOp>>

blockVars == <<state, segs, activeSegments, shardRangesSegments, rotateCh,
               closeCtxDone, nextDoc, evicted, lock>>
rotVars == <<rotPc, rotSel, rotMerged, rotNew>>

\* activeSegmentState
mutableActiveSegmentState == "Mutable"
rotatingActiveSegmentState == "Rotating"
fstActiveSegmentState == "FST"

\* ------------------------------------------------------------- helpers
Range(s) == {s[i] : i \in DOMAIN s}

RECURSIVE Flatten(_)
Flatten(ss) == IF ss = <<>> THEN <<>> ELSE Head(ss) \o Flatten(Tail(ss))

\* ------------------------------------------------- segment capability
\* A segment: kind "mem" (segment.MutableSegment) or "fst"; its documents;
\* whether Seal() has been called; how many times Close() has been called.
NewMemSegment == [kind |-> "mem", docs |-> {}, sealed |-> FALSE, closed |-> 0]
NewFstSegment(d) == [kind |-> "fst", docs |-> d, sealed |-> TRUE, closed |-> 0]

SegSize(sg, id) == Cardinality(sg[id].docs)
IsMutableSegment(sg, id) == sg[id].kind = "mem"
IsSealed(sg, id) == sg[id].sealed

\* MutableSegment.Seal(): fails on a segment already sealed or closed
SealErr(sg, id) == sg[id].sealed \/ sg[id].closed > 0
SegSeal(sg, id) == IF SealErr(sg, id) THEN sg
                   ELSE [sg EXCEPT ![id].sealed = TRUE]

\* Segment.Close(): releases storage; a second Close is an error
CloseErr(sg, id) == sg[id].closed > 0
SegClose(sg, id) == [sg EXCEPT ![id].closed = @ + 1]

RECURSIVE SealAll(_, _)
SealAll(sg, ids) == IF ids = <<>> THEN sg
                    ELSE SealAll(SegSeal(sg, Head(ids)), Tail(ids))

RECURSIVE CloseAll(_, _)
CloseAll(sg, ids) == IF ids = <<>> THEN sg
                     ELSE CloseAll(SegClose(sg, Head(ids)), Tail(ids))

\* xerrors.MultiError.FinalError(): nil when no call failed
FinalError(anyErr) == IF anyErr THEN "multiError" ELSE "nil"

\* ------------------------------------------------------ write batches
Marks == {"Unmarked", "Success", "Error"}
\* an entry: its pending state, and whether the segment will reject its
\* document (duplicate id, invalid document)
Entries == {e \in [mark : Marks, bad : BOOLEAN] :
              e.bad => e.mark = "Unmarked"}
Batches == UNION {[1..n -> Entries] : n \in 1..MaxBatch}

MarksOf(batch) == [i \in DOMAIN batch |-> batch[i].mark]
Pending(batch) == {i \in DOMAIN batch : batch[i].mark = "Unmarked"}

\* WriteBatch.MarkUnmarkedEntriesError / MarkUnmarkedEntriesSuccess
MarkUnmarkedEntries(marks, m) ==
  [i \in DOMAIN marks |-> IF marks[i] = "Unmarked" THEN m ELSE marks[i]]
\* WriteBatch.MarkUnmarkedEntryError(err, idx)
MarkUnmarkedEntryError(marks, idx) ==
  [marks EXCEPT ![idx] = IF @ = "Unmarked" THEN "Error" ELSE @]

RECURSIVE MarkErrs(_, _)
MarkErrs(marks, idxs) ==
  IF idxs = {} THEN marks
  ELSE LET i == CHOOSE j \in idxs : TRUE
       IN MarkErrs(MarkUnmarkedEntryError(marks, i), idxs \ {i})

\* --------------------------------------------------------------- Init
\* NewBlock: state Open, one fresh Mutable active segment, both
\* background goroutines started.
Init ==
  /\ state = "Open"
  /\ segs = <<NewMemSegment>>
  /\ activeSegments = <<[seg |-> 1, state |-> mutableActiveSegmentState]>>
  /\ shardRangesSegments = <<>>
  /\ rotateCh = 0
  /\ closeCtxDone = FALSE
  /\ lock = "free"
  /\ rotPc = "idle"
  /\ rotSel = <<>>
  /\ rotMerged = {}
  /\ rotNew = 0
  /\ reportPc = "poll"
  /\ nextDoc = 0
  /\ evicted = FALSE
  /\ lastOp = [op |-> "NewBlock", err |-> "nil"]

\* --------------------------------------------------------- write path
writeBatchErrorInvalidState(st) ==
  IF st = "Closed" THEN "errUnableToWriteBlockClosed"
  ELSE IF st = "Sealed" THEN "errUnableToWriteBlockSealed"
  ELSE "errUnableToWriteBlockUnknownState"

\* index in activeSegments of the first segment tagged Mutable (0: none)
mutableActiveSegmentWithRLock(as) ==
  IF \E i \in DOMAIN as : as[i].state = mutableActiveSegmentState
  THEN CHOOSE i \in DOMAIN as :
         /\ as[i].state = mutableActiveSegmentState
         /\ \A j \in 1..(i - 1) : as[j].state # mutableActiveSegmentState
  ELSE 0

\* addActiveSegmentWithLock: a fresh mutable segment goes to the front
addActiveSegmentWithLock(sg, as) ==
  [segs |-> Append(sg, NewMemSegment),
   active |-> <<[seg |-> Len(sg) + 1, state |-> mutableActiveSegmentState]>>
               \o as]

\* triggerRotations: non-blocking send on the one-slot channel
\* (a send that queues every signal)
triggerRotationsQueued(ch) == ch + 1
triggerRotations(ch) == IF ch = 0 THEN 1 ELSE ch

\* the state checks that open each operation
\* (a write path that only refuses a closed block)
CanWriteUnlessClosed(st) == st # "Closed"
CanWrite(st) == st = "Open"
\* (a Seal that forgets its state check)
CanSealUnchecked(st) == TRUE
CanSeal(st) == st = "Open"
CanEvict(st) == st = "Sealed"
\* (a closed check that tests the wrong state)
IsClosedWrongState(st) == st = "Sealed"
IsClosed(st) == st = "Closed"

\* the rotation trigger evaluated when WriteBatch returns
\* (a trigger that fires as soon as the size reaches the threshold)
RotationDueAtSize(size, aged) ==
  size >= defaultMutableSegmentRotationSize \/ aged
RotationDue(size, aged) ==
  size > defaultMutableSegmentRotationSize \/ aged

\* the counts returned with a partial error
\* (counts that ignore the failed entries)
PartialResultAllSuccess(len, numErr) == [NumSuccess |-> len, NumError |-> numErr]
PartialResult(len, numErr) == [NumSuccess |-> len - numErr, NumError |-> numErr]

\* the number of documents a WriteBatch call adds to its segment
Inserted(batch) ==
  LET idx == mutableActiveSegmentWithRLock(activeSegments) IN
  IF ~CanWrite(state) \/ idx = 0 THEN 0
  ELSE LET id == activeSegments[idx].seg IN
       IF IsSealed(segs, id) \/ segs[id].closed > 0 THEN 0
       ELSE Cardinality({i \in Pending(batch) : ~batch[i].bad})

WriteBatch(batch, aged) ==
  /\ lock = "free"
  /\ IF ~CanWrite(state)
     THEN /\ lastOp' = [op |-> "WriteBatch", batch |-> batch,
                        err |-> writeBatchErrorInvalidState(state),
                        marks |-> MarkUnmarkedEntries(MarksOf(batch), "Error"),
                        NumSuccess |-> 0, NumError |-> Len(batch),
                        target |-> 0, docs |-> {}]
          /\ UNCHANGED <<blockVars, rotVars, reportPc>>
     ELSE
       LET idx == mutableActiveSegmentWithRLock(activeSegments) IN
       /\ idx # 0
       /\ LET id == activeSegments[idx].seg
              pend == Pending(batch)
              rejected == IsSealed(segs, id) \/ segs[id].closed > 0
              failing == {i \in pend : batch[i].bad}
              k == IF rejected THEN 0 ELSE Cardinality(pend \ failing)
              newDocs == (nextDoc + 1)..(nextDoc + k)
              sg1 == [segs EXCEPT ![id].docs = @ \cup newDocs]
              rotate == RotationDue(SegSize(sg1, id), aged)
              added == addActiveSegmentWithLock(SegSeal(sg1, id), activeSegments)
              marks0 == MarksOf(batch)
          IN
          /\ rotate => Len(segs) < MaxSegs
          /\ nextDoc' = nextDoc + k
          /\ IF rotate
             THEN /\ segs' = added.segs
                  /\ activeSegments' = added.active
                  /\ rotateCh' = triggerRotations(rotateCh)
             ELSE /\ segs' = sg1
                  /\ UNCHANGED <<activeSegments, rotateCh>>
          /\ lastOp' =
               IF rejected
               THEN [op |-> "WriteBatch", batch |-> batch,
                     err |-> "unknownWriteBatchInvariantError",
                     marks |-> MarkUnmarkedEntries(marks0, "Error"),
                     NumSuccess |-> 0, NumError |-> Len(batch),
                     target |-> id, docs |-> {}]
               ELSE IF failing = {}
               THEN [op |-> "WriteBatch", batch |-> batch, err |-> "nil",
                     marks |-> MarkUnmarkedEntries(marks0, "Success"),
                     NumSuccess |-> Len(batch), NumError |-> 0,
                     target |-> id, docs |-> newDocs]
               ELSE [op |-> "WriteBatch", batch |-> batch,
                     err |-> "BatchPartialError",
                     marks |-> MarkUnmarkedEntries(MarkErrs(marks0, failing),
                                                   "Success"),
                     NumSuccess |->
                       PartialResult(Len(batch), Cardinality(failing)).NumSuccess,
                     NumError |->
                       PartialResult(Len(batch), Cardinality(failing)).NumError,
                     target |-> id, docs |-> newDocs]
          /\ UNCHANGED <<state, shardRangesSegments, closeCtxDone, lock, evicted,
                         rotVars, reportPc>>

\* ------------------------------------------------------ Seal and Close
ActiveIds(as) == [i \in DOMAIN as |-> as[i].seg]
GroupIds(srs) == Flatten([i \in DOMAIN srs |-> srs[i].segments])

Seal ==
  /\ lock = "free"
  /\ IF ~CanSeal(state)
     THEN /\ lastOp' = [op |-> "Seal", err |-> "errUnableToSealBlockIllegalState"]
          /\ UNCHANGED <<blockVars, rotVars, reportPc>>
     ELSE
       LET mut == ActiveIds(SelectSeq(activeSegments,
                    LAMBDA a : a.state = mutableActiveSegmentState))
           boot == SelectSeq(GroupIds(shardRangesSegments),
                     LAMBDA id : IsMutableSegment(segs, id))
           toSeal == mut \o boot
       IN
       /\ state' = "Sealed"
       /\ segs' = SealAll(segs, toSeal)
       /\ lastOp' = [op |-> "Seal",
                     err |-> FinalError(\E i \in DOMAIN toSeal :
                                           SealErr(segs, toSeal[i]))]
       /\ UNCHANGED <<activeSegments, shardRangesSegments, rotateCh,
                      closeCtxDone, lock, nextDoc, evicted, rotVars, reportPc>>

\* closeCtxCancelFn: cancels closeCtx, for the rotator and the reporter
\* (a Close that leaves the context alone)
closeCtxCancelFnOmitted(done) == done
closeCtxCancelFn(done) == TRUE

Close ==
  /\ lock = "free"
  /\ IF IsClosed(state)
     THEN /\ lastOp' = [op |-> "Close", err |-> "errBlockAlreadyClosed"]
          /\ UNCHANGED <<blockVars, rotVars, reportPc>>
     ELSE
       LET toClose == ActiveIds(activeSegments) \o GroupIds(shardRangesSegments)
       IN
       /\ state' = "Closed"
       /\ closeCtxDone' = closeCtxCancelFn(closeCtxDone)
       /\ segs' = CloseAll(segs, toClose)
       /\ activeSegments' = <<>>
       /\ shardRangesSegments' = <<>>
       /\ lastOp' = [op |-> "Close",
                     err |-> FinalError(\E i \in DOMAIN toClose :
                                           CloseErr(segs, toClose[i]))]
       /\ UNCHANGED <<rotateCh, nextDoc, evicted, lock, rotVars, reportPc>>


\* ---------------------------------------------------------- query path
\* Segment.Reader(): fails on a closed segment
ReaderErr(sg, id) == sg[id].closed > 0

\* executorWithRLock: the segments a reader is acquired from, in order
ExecutorSegments(as, srs) ==
  ActiveIds(SelectSeq(as, LAMBDA a : a.state = fstActiveSegmentState))
    \o GroupIds(srs)

\* the documents of one reader, in ascending postings order
RECURSIVE SetToSeq(_)
SetToSeq(S) ==
  IF S = {} THEN <<>>
  ELSE LET m == CHOOSE x \in S : \A y \in S : x <= y
       IN <<m>> \o SetToSeq(S \ {m})

\* what the executor's iterator yields: every reader's documents in turn
IterDocs(sg, ids) == Flatten([i \in DOMAIN ids |-> SetToSeq(sg[ids[i]].docs)])

\* what can go wrong in a collaborator during one Query call: nothing, the
\* at-th Reader() call, Execute, the at-th Results.Add, the iterator
\* (after at - 1 documents), the iterator's Close, the executor's Close
QueryFailures ==
  {[kind |-> "none", at |-> 0]}
    \cup {[kind |-> k, at |-> a] :
            k \in {"reader", "sink", "iterErr"}, a \in 1..MaxFailAt}
    \cup {[kind |-> k, at |-> 0] : k \in {"execute", "iterClose", "execClose"}}
NoFailure == [kind |-> "none", at |-> 0]

\* the reader acquisition loop: index of the first Reader() call that
\* fails (0: none does)
FirstReaderFailure(sg, ids, fail) ==
  LET bad == {i \in DOMAIN ids :
                ReaderErr(sg, ids[i]) \/ (fail.kind = "reader" /\ fail.at = i)}
  IN IF bad = {} THEN 0 ELSE CHOOSE i \in bad : \A j \in bad : i <= j

\* the result loop of Query: stops before an Add once size >= Limit > 0,
\* and returns at once when the at-th Results.Add fails
\* (a limit test that lets one document too many through)
LimitReachedLate(limit, size) == limit > 0 /\ size > limit
LimitReached(limit, size) == limit > 0 /\ size >= limit

RECURSIVE QueryLoop(_, _, _, _, _)
QueryLoop(it, i, res, limit, failAdd) ==
  IF i > Len(it) THEN [results |-> res, brokeEarly |-> FALSE, err |-> FALSE]
  ELSE IF LimitReached(limit, Cardinality(res))
       THEN [results |-> res, brokeEarly |-> TRUE, err |-> FALSE]
       ELSE IF failAdd = i
            THEN [results |-> res, brokeEarly |-> FALSE, err |-> TRUE]
            ELSE QueryLoop(it, i + 1, res \cup {it[i]}, limit, failAdd)

\* safeCloser: Close reaches the wrapped resource at most once
NewSafeCloser == [closed |-> FALSE, calls |-> 0]
\* (a closer that forwards every Close)
SafeCloseUnguarded(c) == [closed |-> TRUE, calls |-> c.calls + 1]
SafeClose(c) == IF c.closed THEN c
                ELSE [closed |-> TRUE, calls |-> c.calls + 1]

\* what one Query call returns and how it leaves what it acquired:
\* readers[i] is the number of Close calls the i-th acquired reader got,
\* exec and iter the number the executor and the iterator got (-1: never
\* acquired).  The executor closes its readers when it is closed.
QueryRecord(err, limit, ids, res, exh, readers, exec, iter) ==
  [op |-> "Query", err |-> err, limit |-> limit, sources |-> ids,
   results |-> res, exhaustive |-> exh,
   readers |-> readers, exec |-> exec, iter |-> iter]

QueryResult(limit, fail) ==
  IF IsClosed(state)
  THEN QueryRecord("errUnableToQueryBlockClosed", limit, <<>>, {}, FALSE,
                   <<>>, -1, -1)
  ELSE
  LET ids == ExecutorSegments(activeSegments, shardRangesSegments)
      failIdx == FirstReaderFailure(segs, ids, fail)
  IN
  IF failIdx # 0
  THEN \* executorWithRLock: the deferred cleanup closes what was acquired
       QueryRecord("readerError", limit, <<>>, {}, FALSE,
                   [i \in 1..(failIdx - 1) |-> 1], -1, -1)
  ELSE IF fail.kind = "execute"
  THEN \* exec.Close() before the return
       QueryRecord("executeError", limit, <<>>, {}, FALSE,
                   [i \in DOMAIN ids |-> 1], 1, -1)
  ELSE
  LET all == IterDocs(segs, ids)
      it == IF fail.kind = "iterErr" /\ fail.at - 1 <= Len(all)
            THEN SubSeq(all, 1, fail.at - 1) ELSE all
      loop == QueryLoop(it, 1, {}, limit,
                        IF fail.kind = "sink" THEN fail.at ELSE 0)
      iterErr == /\ fail.kind = "iterErr" /\ fail.at - 1 <= Len(all)
                 /\ ~loop.brokeEarly
      \* the explicit closes made before the return
      explicitIter == ~loop.err /\ ~iterErr
      iterFails == explicitIter /\ fail.kind = "iterClose"
      explicitExec == explicitIter /\ ~iterFails
      execFails == explicitExec /\ fail.kind = "execClose"
      iterC1 == IF explicitIter THEN SafeClose(NewSafeCloser)
                ELSE NewSafeCloser
      execC1 == IF explicitExec THEN SafeClose(NewSafeCloser)
                ELSE NewSafeCloser
      \* the deferred closes
      iterC == SafeClose(iterC1)
      execC == SafeClose(execC1)
      err == IF loop.err THEN "resultsAddError"
             ELSE IF iterErr THEN "iteratorError"
             ELSE IF iterFails THEN "iteratorCloseError"
             ELSE IF execFails THEN "executorCloseError"
             ELSE "nil"
  IN QueryRecord(err, limit, ids,
                 loop.results,
                 err = "nil" /\ ~loop.brokeEarly,
                 [i \in DOMAIN ids |-> execC.calls], execC.calls, iterC.calls)

QueryWith(limit, fail) ==
  /\ lock = "free"
  /\ lastOp' = QueryResult(limit, fail)
  /\ UNCHANGED <<blockVars, rotVars, reportPc>>

Query(limit) == QueryWith(limit, NoFailure)

\* ------------------------------------------------------ bootstrap merge
\* result.ShardTimeRanges as the set of <<shard, t>> unit ranges [t, t+1)
Cells(shard, a, b) == {<<shard, t>> : t \in a..(b - 1)}
TimeRangeMin(r) == CHOOSE t \in {c[2] : c \in r} : \A c \in r : t <= c[2]
TimeRangeMax(r) == 1 + CHOOSE t \in {c[2] : c \in r} : \A c \in r : c[2] <= t
\* (a range check that forgets the end of the block)
OutsideBlockRangeMinOnly(r) == TimeRangeMin(r) < startTime
OutsideBlockRange(r) == TimeRangeMin(r) < startTime \/ TimeRangeMax(r) > endTime

\* (a coverage that looks at the latest record only)
CurrFulfilledLastOnly(srs) ==
  IF srs = <<>> THEN {} ELSE srs[Len(srs)].shardTimeRanges

RECURSIVE CurrFulfilled(_)
CurrFulfilled(srs) ==
  IF srs = <<>> THEN {}
  ELSE Head(srs).shardTimeRanges \cup CurrFulfilled(Tail(srs))

\* (a subtraction taken the wrong way round)
UnfulfilledReversed(srs, fulfilled) == fulfilled \ CurrFulfilled(srs)

\* what of the current coverage the incoming record leaves uncovered
UnfulfilledBySegments(srs, fulfilled) == CurrFulfilled(srs) \ fulfilled

\* the segments of an incoming result.IndexBlock
BootKinds == {"mem", "fst"}
NewBootSegment(kind, id) ==
  [kind |-> IF kind = "fst" THEN "fst" ELSE "mem", docs |-> {0 - id},
   sealed |-> kind # "mem", closed |-> 0]

\* the incoming mutable segments that are sealed at once
\* (a bootstrap that never seals what it receives)
SealOnArrivalNever(st, incoming) == <<>>
SealOnArrival(st, incoming) == IF st = "Sealed" THEN incoming ELSE <<>>

AddResults(fulfilled, kinds) ==
  /\ lock = "free"
  /\ IF IsClosed(state)
     THEN /\ lastOp' = [op |-> "AddResults",
                        err |-> "errUnableToBootstrapBlockClosed"]
          /\ UNCHANGED <<blockVars, rotVars, reportPc>>
     ELSE IF OutsideBlockRange(fulfilled)
     THEN /\ lastOp' = [op |-> "AddResults", err |-> "errFulfilledOutsideRange"]
          /\ UNCHANGED <<blockVars, rotVars, reportPc>>
     ELSE
       LET ids == [i \in DOMAIN kinds |-> Len(segs) + i]
           sg0 == segs \o [i \in DOMAIN kinds |-> NewBootSegment(kinds[i], ids[i])]
           incoming == SelectSeq(ids, LAMBDA id : IsMutableSegment(sg0, id))
           toSeal == SealOnArrival(state, incoming)
           sealErr == \E i \in DOMAIN toSeal : SealErr(sg0, toSeal[i])
           sg1 == SealAll(sg0, toSeal)
           entry == [shardTimeRanges |-> fulfilled, segments |-> ids]
           unfulfilledBySegments ==
             UnfulfilledBySegments(shardRangesSegments, fulfilled)
           old == GroupIds(shardRangesSegments)
       IN
       /\ Len(segs) + Len(kinds) <= MaxSegs
       /\ IF unfulfilledBySegments # {}
          THEN /\ Len(shardRangesSegments) < MaxRecords
               /\ shardRangesSegments' = Append(shardRangesSegments, entry)
               /\ segs' = sg1
               /\ lastOp' = [op |-> "AddResults", err |-> FinalError(sealErr)]
          ELSE /\ shardRangesSegments' = <<entry>>
               /\ segs' = CloseAll(sg1, old)
               /\ lastOp' = [op |-> "AddResults",
                             err |-> FinalError(sealErr \/
                                       \E i \in DOMAIN old : CloseErr(sg1, old[i]))]
       /\ UNCHANGED <<state, activeSegments, rotateCh, closeCtxDone, lock, nextDoc, evicted,
                      rotVars, reportPc>>

\* ----------------------------------------------------------------- Tick
RECURSIVE SumSizes(_, _)
SumSizes(sg, ids) ==
  IF ids = <<>> THEN 0 ELSE SegSize(sg, Head(ids)) + SumSizes(sg, Tail(ids))

\* the segments Tick walks: the active ones, then those of every record
\* (a walk that skips the bootstrap records)
TickSegmentsActiveOnly(as, srs) == ActiveIds(as)
TickSegments(as, srs) == ActiveIds(as) \o GroupIds(srs)

Tick ==
  /\ lock = "free"
  /\ IF IsClosed(state)
     THEN lastOp' = [op |-> "Tick", err |-> "errUnableToTickBlockClosed",
                     NumSegments |-> 0, NumDocs |-> 0]
     ELSE LET ids == TickSegments(activeSegments, shardRangesSegments)
          IN lastOp' = [op |-> "Tick", err |-> "nil",
                        NumSegments |-> Len(ids),
                        NumDocs |-> SumSizes(segs, ids)]
  /\ UNCHANGED <<blockVars, rotVars, reportPc>>

\* -------------------------------------------------- EvictActiveSegments
\* (an eviction that leaves the bootstrap records as they are)
WithMutableKept(sg, group) == group

\* a bootstrap record with its mutable segments dropped
WithoutMutable(sg, group) ==
  [group EXCEPT !.segments =
     SelectSeq(@, LAMBDA id : ~IsMutableSegment(sg, id))]

EvictActiveSegments ==
  /\ lock = "free"
  /\ IF ~CanEvict(state)
     THEN /\ lastOp' = [op |-> "EvictActiveSegments",
                        err |-> "errUnableToEvictBlockNotSealed",
                        NumActiveSegments |-> 0, NumDocs |-> 0]
          /\ UNCHANGED <<blockVars, rotVars, reportPc>>
     ELSE
       LET bootMut == SelectSeq(GroupIds(shardRangesSegments),
                        LAMBDA id : IsMutableSegment(segs, id))
           toClose == ActiveIds(activeSegments) \o bootMut
       IN
       /\ segs' = CloseAll(segs, toClose)
       /\ activeSegments' = <<>>
       /\ shardRangesSegments' =
            [i \in DOMAIN shardRangesSegments |->
               WithoutMutable(segs, shardRangesSegments[i])]
       /\ lastOp' = [op |-> "EvictActiveSegments",
                     err |-> FinalError(\E i \in DOMAIN toClose :
                                           CloseErr(segs, toClose[i])),
                     NumActiveSegments |-> Len(toClose),
                     NumDocs |-> SumSizes(segs, toClose)]
       /\ evicted' = TRUE
       /\ UNCHANGED <<state, rotateCh, closeCtxDone, lock, nextDoc, rotVars, reportPc>>

\* ------------------------------------------------------------ rotator
\* b.Lock() and b.Unlock() around the rotator's two critical sections; a
\* foreground call takes and releases the lock within its own step
Lock(l, who) == who
\* (a critical section that returns without unlocking)
UnlockSkipped(l) == l
Unlock(l) == "free"

\* monitorRotations: select on closeCtx.Done() and rotateCh
RotatorExit ==
  /\ rotPc = "idle"
  /\ closeCtxDone
  /\ rotPc' = "done"
  /\ UNCHANGED <<blockVars, rotSel, rotMerged, rotNew, reportPc, lastOp>>

RotatorReceive ==
  /\ rotPc = "idle"
  /\ rotateCh = 1
  /\ rotateCh' = 0
  /\ rotPc' = "select"
  /\ UNCHANGED <<state, segs, activeSegments, shardRangesSegments,
                 closeCtxDone, lock, nextDoc, evicted, rotSel, rotMerged, rotNew,
                 reportPc, lastOp>>

\* sort.Slice by ascending Size(); the order of equal sizes is unspecified
SortedBySize(sg, as) ==
  IF as = <<>> THEN {<<>>}
  ELSE {[i \in DOMAIN as |-> as[p[i]]] :
          p \in {q \in Permutations(DOMAIN as) :
                   \A i, j \in DOMAIN as :
                     i < j => ~(SegSize(sg, as[q[j]].seg)
                                  < SegSize(sg, as[q[i]].seg))}}

\* (a selection that does not ask whether a Mutable segment is sealed)
EligibleUnsealed(sg, a) ==
  a.state \in {mutableActiveSegmentState, fstActiveSegmentState}

\* which segments the selection loop may take
Eligible(sg, a) ==
  \/ a.state = mutableActiveSegmentState /\ IsSealed(sg, a.seg)
  \/ a.state = fstActiveSegmentState

\* the test that ends the selection loop
\* (a loop that lets the accumulated size reach the ceiling)
OverflowsPast(acc, size) ==
  acc + size > defaultMutableSegmentRotationMergeSize
Overflows(acc, size) ==
  acc + size >= defaultMutableSegmentRotationMergeSize

\* the selection loop: ids of the segments accumulated, in order
RECURSIVE SelectWalk(_, _, _, _)
SelectWalk(sg, as, i, acc) ==
  IF i > Len(as) THEN <<>>
  ELSE LET size == SegSize(sg, as[i].seg) IN
       IF Overflows(acc, size) THEN <<>>
       ELSE IF Eligible(sg, as[i])
            THEN <<as[i].seg>> \o SelectWalk(sg, as, i + 1, acc + size)
            ELSE SelectWalk(sg, as, i + 1, acc)

\* selected Mutable segments are tagged Rotating in place
\* (a selection that re-tags every segment it takes)
MarkRotatingAny(as, sel) ==
  [i \in DOMAIN as |->
     IF as[i].seg \in Range(sel)
     THEN [as[i] EXCEPT !.state = rotatingActiveSegmentState]
     ELSE as[i]]
MarkRotating(as, sel) ==
  [i \in DOMAIN as |->
     IF as[i].seg \in Range(sel) /\ as[i].state = mutableActiveSegmentState
     THEN [as[i] EXCEPT !.state = rotatingActiveSegmentState]
     ELSE as[i]]

NumAccumulatedMutable(as, sel) ==
  Cardinality({i \in DOMAIN as : /\ as[i].seg \in Range(sel)
                                 /\ as[i].state = mutableActiveSegmentState})

\* first critical section of rotateMutableActiveSegments, and the early exit
RotatorSelect ==
  /\ rotPc = "select"
  /\ lock = "free"
  /\ lock' = Unlock(Lock(lock, "rotator"))
  /\ \E sorted \in SortedBySize(segs, activeSegments) :
       LET sel == SelectWalk(segs, sorted, 1, 0)
           numMut == NumAccumulatedMutable(sorted, sel)
       IN /\ activeSegments' = MarkRotating(sorted, sel)
          /\ IF Len(sel) = 0 \/ (Len(sel) = 1 /\ numMut = 0)
             THEN rotPc' = "idle" /\ rotSel' = <<>>
             ELSE rotPc' = "merge" /\ rotSel' = sel
  /\ UNCHANGED <<state, segs, shardRangesSegments, rotateCh, closeCtxDone,
                 nextDoc, evicted, rotMerged, rotNew, reportPc, lastOp>>

\* mem.Merge reads every source through Reader(), which fails once closed
MergeSourcesClosed(sg, sel) == \E i \in DOMAIN sel : sg[sel[i]].closed > 0
MergedDocs(sg, sel) == UNION {sg[sel[i]].docs : i \in DOMAIN sel}

RotatorAbandon ==
  /\ rotPc' = "idle"
  /\ rotSel' = <<>>
  /\ rotMerged' = {}
  /\ rotNew' = 0

RotatorMerge(ok) ==
  /\ rotPc = "merge"
  /\ IF ok /\ ~MergeSourcesClosed(segs, rotSel)
     THEN /\ rotMerged' = MergedDocs(segs, rotSel)
          /\ rotPc' = "seal"
          /\ UNCHANGED <<rotSel, rotNew>>
     ELSE RotatorAbandon
  /\ UNCHANGED <<blockVars, reportPc, lastOp>>

RotatorSealMerged(ok) ==
  /\ rotPc = "seal"
  /\ IF ok
     THEN rotPc' = "transform" /\ UNCHANGED <<rotSel, rotMerged, rotNew>>
     ELSE RotatorAbandon
  /\ UNCHANGED <<blockVars, reportPc, lastOp>>

\* m3ninxpersist.TransformAndMmap, then mergedMutableSegment.Close()
RotatorTransform(ok) ==
  /\ rotPc = "transform"
  /\ IF ok
     THEN /\ Len(segs) < MaxSegs
          /\ segs' = Append(segs, NewFstSegment(rotMerged))
          /\ rotNew' = Len(segs) + 1
          /\ rotMerged' = {}
          /\ rotPc' = "swap"
          /\ UNCHANGED rotSel
     ELSE RotatorAbandon /\ UNCHANGED segs
  /\ UNCHANGED <<state, activeSegments, shardRangesSegments, rotateCh,
                 closeCtxDone, lock, nextDoc, evicted, reportPc, lastOp>>

\* the swap: drop the selected active segments, append the new FST one
SwapSegments(as, sel, new) ==
  SelectSeq(as, LAMBDA a : a.seg \notin Range(sel))
    \o <<[seg |-> new, state |-> fstActiveSegmentState]>>

RotatorSwap ==
  /\ rotPc = "swap"
  /\ lock = "free"
  /\ lock' = Unlock(Lock(lock, "rotator"))
  /\ activeSegments' = SwapSegments(activeSegments, rotSel, rotNew)
  /\ rotPc' = "release"
  /\ UNCHANGED <<state, segs, shardRangesSegments, rotateCh, closeCtxDone,
                 nextDoc, evicted, rotSel, rotMerged, rotNew, reportPc, lastOp>>

\* release resources from all merged segments
RotatorRelease ==
  /\ rotPc = "release"
  /\ segs' = CloseAll(segs, rotSel)
  /\ RotatorAbandon
  /\ UNCHANGED <<state, activeSegments, shardRangesSegments, rotateCh,
                 closeCtxDone, lock, nextDoc, evicted, reportPc, lastOp>>

Rotator ==
  \/ RotatorExit
  \/ RotatorReceive
  \/ RotatorSelect
  \/ \E ok \in BOOLEAN : RotatorMerge(ok)
  \/ \E ok \in BOOLEAN : RotatorSealMerged(ok)
  \/ \E ok \in BOOLEAN : RotatorTransform(ok)
  \/ RotatorSwap
  \/ RotatorRelease

\* ----------------------------------------------------------- reporter
\* reportMetrics: one round of the loop. With closeCtx done the select
\* returns; otherwise the default branch reads activeSegments under the
\* read lock, updates the gauges and goes to sleep.
ReporterPoll ==
  /\ reportPc = "poll"
  /\ IF closeCtxDone
     THEN reportPc' = "done"
     ELSE lock = "free" /\ reportPc' = "sleep"
  /\ UNCHANGED <<blockVars, rotVars, lastOp>>

\* time.Sleep(reportInterval) returns
ReporterWake ==
  /\ reportPc = "sleep"
  /\ reportPc' = "poll"
  /\ UNCHANGED <<blockVars, rotVars, lastOp>>

Reporter == ReporterPoll \/ ReporterWake

\* ------------------------------------------------------- specifications
\* Spec: every operation and the rotator, with the smallest inputs:
\* batches of fresh valid documents, match-all queries without a limit,
\* bootstrap records for one shard.
CoreBatches ==
  {b \in Batches : \A i \in DOMAIN b : b[i] = [mark |-> "Unmarked", bad |-> FALSE]}
CoreFulfilled == {Cells("A", startTime, endTime)}
CoreKinds == {<<"mem">>, <<"fst">>}

Next ==
  \/ \E batch \in CoreBatches, aged \in BOOLEAN :
       nextDoc + Inserted(batch) <= MaxDocs /\ WriteBatch(batch, aged)
  \/ Query(0)
  \/ \E f \in CoreFulfilled, k \in CoreKinds : AddResults(f, k)
  \/ Tick
  \/ Seal
  \/ EvictActiveSegments
  \/ Close
  \/ Rotator

Spec == Init /\ [][Next]_vars

\* SpecBatch: the write path on every batch shape (entries already marked
\* by an earlier attempt, entries the segment rejects), on a block whose
\* rotator is not scheduled.
NextBatch ==
  \/ \E batch \in Batches, aged \in BOOLEAN :
       nextDoc + Inserted(batch) <= MaxDocs /\ WriteBatch(batch, aged)
  \/ Seal
  \/ Close

SpecBatch == Init /\ [][NextBatch]_vars

\* SpecBoot: the bootstrap merge on fulfilled ranges that extend, leave
\* uncovered or fall outside the existing coverage, with every kind of
\* incoming segment, and Seal, EvictActiveSegments and Close.  Bootstrap
\* records stop one segment short of the cap.
BootFulfilled ==
  {Cells("A", startTime, startTime + 1),      \* part of the block, shard A
   Cells("A", startTime, endTime),            \* the whole block, shard A
   Cells("B", startTime, startTime + 1),      \* another shard
   Cells("A", startTime, endTime)             \* both shards
     \cup Cells("B", startTime, startTime + 1),
   Cells("A", startTime - 1, endTime),        \* starts before the block
   Cells("A", startTime, endTime + 1)}        \* ends after the block
BootSegments == UNION {[1..n -> BootKinds] : n \in 0..MaxBootSegs}

NextBoot ==
  \/ \E f \in BootFulfilled, k \in BootSegments :
       Len(segs) + Len(k) < MaxSegs /\ AddResults(f, k)
  \/ Seal
  \/ EvictActiveSegments
  \/ Close

SpecBoot == Init /\ [][NextBoot]_vars

\* SpecQuery: the query path with every limit and every collaborator
\* failure, over the FST segments of bootstrap records for two shards.
QueryFulfilled ==
  {Cells("A", startTime, startTime + 1),
   Cells("B", startTime, startTime + 1)}
QuerySegments == {[i \in 1..n |-> "fst"] : n \in 0..MaxBootSegs}

NextQuery ==
  \/ \E f \in QueryFulfilled, k \in QuerySegments : AddResults(f, k)
  \/ \E limit \in 0..MaxLimit, fail \in QueryFailures : QueryWith(limit, fail)
  \/ Close

SpecQuery == Init /\ [][NextQuery]_vars

\* SpecPass: single-document writes, aged or not, and Close against the
\* rotator and its failures, with enough documents for the selection loop
\* to stop at the merge-size ceiling.
OneDoc == <<[mark |-> "Unmarked", bad |-> FALSE]>>

NextPass ==
  \/ \E aged \in BOOLEAN :
       nextDoc + Inserted(OneDoc) <= MaxPassDocs /\ WriteBatch(OneDoc, aged)
  \/ Close
  \/ Rotator

SpecPass == Init /\ [][NextPass]_vars

\* SpecLive: the two background goroutines of NewBlock against writes, Seal
\* and Close.  The Go scheduler runs every runnable goroutine, and each
\* step of a pass (merge, seal, transform, swap) and each sleep of the
\* reporter returns: both loops are weakly fair.
NextLive ==
  \/ \E aged \in BOOLEAN :
       nextDoc + Inserted(OneDoc) <= MaxDocs /\ WriteBatch(OneDoc, aged)
  \/ Seal
  \/ Close
  \/ Rotator
  \/ Reporter

SpecLive ==
  Init /\ [][NextLive]_vars /\ WF_vars(Rotator) /\ WF_vars(Reporter)

\* SpecFair: single-document writes against a rotator whose merge, seal and
\* transform always succeed, on a block that is never sealed, evicted or
\* closed.  The rotator goroutine is weakly fair; nothing obliges a caller
\* to write.  A write that would rotate is admitted only while the segment
\* bound leaves room for its new segment and for the FST segment of every
\* pass that can still follow, so that no pass ever waits for room.
WouldRotate(batch, aged) ==
  LET idx == mutableActiveSegmentWithRLock(activeSegments) IN
  /\ CanWrite(state)
  /\ idx # 0
  /\ RotationDue(SegSize(segs, activeSegments[idx].seg) + Inserted(batch),
                 aged)

PassesAhead ==
  1 + (IF rotPc \in {"select", "merge", "seal", "transform"} THEN 1 ELSE 0)

RotatorNoFailure ==
  \/ RotatorReceive
  \/ RotatorSelect
  \/ RotatorMerge(TRUE)
  \/ RotatorSealMerged(TRUE)
  \/ RotatorTransform(TRUE)
  \/ RotatorSwap
  \/ RotatorRelease

NextFair ==
  \/ \E aged \in BOOLEAN :
       /\ nextDoc + Inserted(OneDoc) <= MaxPassDocs
       /\ WouldRotate(OneDoc, aged)
            => Len(segs) + 1 + PassesAhead <= MaxSegs
       /\ WriteBatch(OneDoc, aged)
  \/ RotatorNoFailure

SpecFair == Init /\ [][NextFair]_vars /\ WF_vars(RotatorNoFailure)

\* ------------------------------------------------------------- claims
\* the foreground calls of Spec, as one action
Foreground ==
  \/ \E batch \in CoreBatches, aged \in BOOLEAN : WriteBatch(batch, aged)
  \/ Query(0)
  \/ \E f \in CoreFulfilled, k \in CoreKinds : AddResults(f, k)
  \/ Tick
  \/ Seal
  \/ EvictActiveSegments
  \/ Close

\* C1: the block starts Open and its state changes only by Open -> Sealed
\* in a Seal call and by Open -> Closed or Sealed -> Closed in a Close
\* call; no other step changes it, and Closed is never left.
C1_StateTransitions ==
  /\ state = "Open"
  /\ [][state' # state =>
          \/ state = "Open" /\ state' = "Sealed" /\ Seal
          \/ state \in {"Open", "Sealed"} /\ state' = "Closed" /\ Close]_vars

\* a Seal call has been refused on a block closed while a rotation pass
\* was under way
C1_Witness ==
  /\ state = "Closed"
  /\ lastOp.op = "Seal"
  /\ rotPc \in {"merge", "seal", "transform", "swap", "release"}
  /\ \E i \in DOMAIN segs : segs[i].kind = "mem" /\ segs[i].sealed

\* C2: a WriteBatch on a Sealed or Closed block returns the sealed-error or
\* the closed-error with NumSuccess = 0 and NumError = the batch length,
\* marks no entry Success, inserts nothing, adds no active segment and
\* raises no rotation signal.
C2_WriteRefused ==
  [][(/\ state = "Sealed" \/ state = "Closed"
      /\ lastOp'.op = "WriteBatch"
      /\ \E aged \in BOOLEAN : WriteBatch(lastOp'.batch, aged)) =>
       LET batch == lastOp'.batch IN
       /\ lastOp'.err = IF state = "Sealed"
                        THEN "errUnableToWriteBlockSealed"
                        ELSE "errUnableToWriteBlockClosed"
       /\ lastOp'.NumSuccess = 0
       /\ lastOp'.NumError = Len(batch)
       /\ \A i \in DOMAIN batch :
            lastOp'.marks[i] = "Success" => batch[i].mark = "Success"
       /\ UNCHANGED <<segs, activeSegments, rotateCh, nextDoc>>]_vars

\* a batch holding an entry marked Success by an earlier attempt and a
\* pending entry has been refused by a Sealed block that holds documents
C2_Witness ==
  /\ state = "Sealed"
  /\ nextDoc > 0
  /\ lastOp.op = "WriteBatch"
  /\ lastOp.err = "errUnableToWriteBlockSealed"
  /\ lastOp.marks = <<"Success", "Error">>

\* C3: once the block is Closed, every Query, WriteBatch, Tick, AddResults,
\* Seal, EvictActiveSegments and Close call returns an error (Close the
\* already-closed error) and leaves state, activeSegments and
\* shardRangesSegments unchanged.
C3_ClosedAbsorbing ==
  [][state = "Closed" =>
       \/ /\ lastOp'.err # "nil"
          /\ lastOp'.op = "Close" => lastOp'.err = "errBlockAlreadyClosed"
          /\ UNCHANGED <<state, activeSegments, shardRangesSegments>>
       \/ ~Foreground]_vars

\* a second Close has been refused on a block that was closed while it
\* held documents and an FST segment
C3_Witness ==
  /\ state = "Closed"
  /\ lastOp.op = "Close"
  /\ lastOp.err = "errBlockAlreadyClosed"
  /\ nextDoc > 0
  /\ \E i \in DOMAIN segs : segs[i].kind = "fst" /\ segs[i].closed > 0

\* C4: whenever the block is Open (and no operation holds its lock), at
\* least one active segment is tagged Mutable.
C4_OpenHasMutable ==
  state = "Open" =>
    \E i \in DOMAIN activeSegments :
      activeSegments[i].state = mutableActiveSegmentState

\* an Open block in the middle of a rotation pass: a segment tagged
\* Rotating and an FST segment of an earlier pass are active
C4_Witness ==
  /\ state = "Open"
  /\ rotPc = "merge"
  /\ \E i \in DOMAIN activeSegments :
       activeSegments[i].state = rotatingActiveSegmentState
  /\ \E i \in DOMAIN activeSegments :
       activeSegments[i].state = fstActiveSegmentState

\* C5: every document a WriteBatch acknowledged as Success is among the
\* documents of the segments a later Query acquires its readers from, as
\* long as the block has been neither evicted nor closed.
C5_AckedDocsQueried ==
  (lastOp.op = "Query" /\ lastOp.err = "nil" /\ ~evicted) =>
    (1..nextDoc) \subseteq
       UNION {segs[lastOp.sources[i]].docs : i \in DOMAIN lastOp.sources}

\* the rotation pass is between its selection and the end of its swap
InPass == rotPc \in {"merge", "seal", "transform", "swap", "release"}

\* C6: a Query interleaved with a rotation pass sees each document of the
\* segments selected for the pass through exactly one of its sources
\* (the old segments or the new FST segment), never both, never neither.
C6_SwapAtomicForQueries ==
  [][(Query(0) /\ ~IsClosed(state) /\ ~evicted /\ InPass) =>
       \A d \in MergedDocs(segs, rotSel) :
         Cardinality({i \in DOMAIN lastOp'.sources :
                        d \in segs[lastOp'.sources[i]].docs}) = 1]_vars

\* C7: EvictActiveSegments succeeds only on a Sealed block; when it returns
\* successfully activeSegments is empty, every segment that was active is
\* closed, no bootstrap record holds a mutable segment and every
\* non-mutable bootstrap segment is kept; on an Open or Closed block it
\* returns an error and changes nothing.
C7_EvictLegality ==
  [][EvictActiveSegments =>
       /\ lastOp'.err = "nil" =>
            /\ state = "Sealed"
            /\ activeSegments' = <<>>
            /\ \A i \in DOMAIN activeSegments :
                 segs'[activeSegments[i].seg].closed >= 1
            /\ Len(shardRangesSegments') = Len(shardRangesSegments)
            /\ \A r \in DOMAIN shardRangesSegments :
                 /\ \A j \in DOMAIN shardRangesSegments'[r].segments :
                      segs[shardRangesSegments'[r].segments[j]].kind # "mem"
                 /\ \A j \in DOMAIN shardRangesSegments[r].segments :
                      LET id == shardRangesSegments[r].segments[j] IN
                      segs[id].kind # "mem" =>
                        /\ id \in Range(shardRangesSegments'[r].segments)
                        /\ segs'[id].closed = 0
       /\ state # "Sealed" =>
            /\ lastOp'.err # "nil"
            /\ UNCHANGED <<state, segs, activeSegments, shardRangesSegments,
                           rotateCh, closeCtxDone>>]_vars

\* an eviction has succeeded on a block holding documents in its active
\* segments and a non-mutable bootstrap segment, which it kept
C7_Witness ==
  /\ lastOp.op = "EvictActiveSegments"
  /\ lastOp.err = "nil"
  /\ lastOp.NumDocs > 1
  /\ activeSegments = <<>>
  /\ \E r \in DOMAIN shardRangesSegments :
       shardRangesSegments[r].segments # <<>>

\* the incoming record is accepted: the block is not Closed and the
\* fulfilled ranges lie inside [startTime, endTime)
Inside(f) == \A c \in f : startTime <= c[2] /\ c[2] + 1 <= endTime
Covers(f, srs) == \A r \in DOMAIN srs : srs[r].shardTimeRanges \subseteq f

\* C8: on an Open or Sealed block AddResults rejects with the range error
\* every record whose fulfilled ranges start before startTime or end after
\* endTime, leaves shardRangesSegments unchanged and seals or closes no
\* segment.
C8_RangeContainment ==
  [][\A f \in BootFulfilled, k \in BootSegments :
       (AddResults(f, k) /\ state # "Closed" /\ ~Inside(f)) =>
         /\ lastOp'.err = "errFulfilledOutsideRange"
         /\ UNCHANGED <<shardRangesSegments, segs, activeSegments, state>>]_vars

\* a record outside the block's range has been rejected by a Sealed block
\* that holds a bootstrap record with a mutable segment
C8_Witness ==
  /\ state = "Sealed"
  /\ lastOp.op = "AddResults"
  /\ lastOp.err = "errFulfilledOutsideRange"
  /\ \E id \in Range(GroupIds(shardRangesSegments)) : segs[id].kind = "mem"

\* C9: an accepted record whose fulfilled ranges cover the ranges of every
\* existing bootstrap record replaces them all: afterwards the new record
\* is the only one, and every segment of every replaced record has been
\* closed exactly once.
C9_BootstrapReplacement ==
  [][\A f \in BootFulfilled, k \in BootSegments :
       (AddResults(f, k) /\ state # "Closed" /\ Inside(f)
          /\ Covers(f, shardRangesSegments)) =>
         /\ Len(shardRangesSegments') = 1
         /\ shardRangesSegments'[1].shardTimeRanges = f
         /\ Len(shardRangesSegments'[1].segments) = Len(k)
         /\ \A j \in DOMAIN k :
              LET id == shardRangesSegments'[1].segments[j] IN
              /\ id \notin DOMAIN segs
              /\ segs'[id].kind = k[j]
              /\ segs'[id].closed = 0
         /\ \A id \in Range(GroupIds(shardRangesSegments)) :
              segs[id].closed = 0 /\ segs'[id].closed = 1]_vars

\* a record covering two existing records, which held segments, has
\* replaced them
C9_Witness ==
  /\ lastOp.op = "AddResults"
  /\ lastOp.err = "nil"
  /\ Len(shardRangesSegments) = 1
  /\ shardRangesSegments[1].shardTimeRanges =
       Cells("A", startTime, endTime) \cup Cells("B", startTime, startTime + 1)
  /\ Cardinality({id \in DOMAIN segs :
                    id > 1 /\ segs[id].closed = 1}) >= 2

\* C10: an accepted record whose fulfilled ranges do not cover the existing
\* coverage is appended after the existing records; every existing record
\* stays unchanged in its position and no existing segment is closed.
C10_BootstrapAppend ==
  [][\A f \in BootFulfilled, k \in BootSegments :
       (AddResults(f, k) /\ state # "Closed" /\ Inside(f)
          /\ ~Covers(f, shardRangesSegments)) =>
         /\ Len(shardRangesSegments') = Len(shardRangesSegments) + 1
         /\ \A r \in DOMAIN shardRangesSegments :
              shardRangesSegments'[r] = shardRangesSegments[r]
         /\ shardRangesSegments'[Len(shardRangesSegments')].shardTimeRanges = f
         /\ Len(shardRangesSegments'[Len(shardRangesSegments')].segments)
              = Len(k)
         /\ \A id \in DOMAIN segs : segs'[id].closed = segs[id].closed]_vars

\* a record for another shard has been appended after a record whose
\* segment stays open
C10_Witness ==
  /\ lastOp.op = "AddResults"
  /\ lastOp.err = "nil"
  /\ Len(shardRangesSegments) = 2
  /\ shardRangesSegments[1].segments # <<>>
  /\ shardRangesSegments[2].shardTimeRanges = Cells("B", startTime, startTime + 1)
  /\ \A id \in Range(GroupIds(shardRangesSegments)) : segs[id].closed = 0

\* the documents the executor of a query reads
CandidateDocs ==
  UNION {segs[id].docs :
           id \in Range(ExecutorSegments(activeSegments, shardRangesSegments))}

\* C11: a Query without error on a non-closed block, into an empty sink,
\* over N candidate documents: Limit = 0 leaves N documents in the sink and
\* exhaustive = true; 0 < Limit < N leaves exactly Limit documents and
\* exhaustive = false; with Limit > 0 the sink never holds more than Limit
\* documents, whatever the outcome of the call.
C11_QueryLimit ==
  [][(/\ state # "Closed"
      /\ lastOp'.op = "Query"
      /\ \E fail \in QueryFailures : QueryWith(lastOp'.limit, fail)) =>
       LET N == Cardinality(CandidateDocs)
           limit == lastOp'.limit
           size == Cardinality(lastOp'.results)
       IN /\ limit > 0 => size <= limit
          /\ (lastOp'.err = "nil" /\ limit = 0) =>
               size = N /\ lastOp'.exhaustive
          /\ (lastOp'.err = "nil" /\ 0 < limit /\ limit < N) =>
               size = limit /\ ~lastOp'.exhaustive]_vars

\* a query with Limit 1 over two candidate documents has returned one
\* document and exhaustive = false
C11_Witness ==
  /\ state # "Closed"
  /\ lastOp.op = "Query"
  /\ lastOp.err = "nil"
  /\ lastOp.limit = 1
  /\ Cardinality(CandidateDocs) >= 2
  /\ Cardinality(lastOp.results) = 1
  /\ ~lastOp.exhaustive

\* C12: every WriteBatch call returns NumSuccess + NumError = the batch
\* length; when the insert reports a partial error naming k entries the
\* call returns NumSuccess = length - k, NumError = k and the partial error,
\* the named entries are marked Error, every other unmarked entry is marked
\* Success, and entries marked by an earlier attempt keep their mark.
C12_PartialBatch ==
  [][(/\ lastOp'.op = "WriteBatch"
      /\ \E aged \in BOOLEAN : WriteBatch(lastOp'.batch, aged)) =>
       LET batch == lastOp'.batch
           named == {i \in DOMAIN batch :
                       batch[i].mark = "Unmarked" /\ batch[i].bad}
           k == Cardinality(named)
       IN /\ lastOp'.NumSuccess + lastOp'.NumError = Len(batch)
          /\ (state = "Open" /\ k > 0) =>
               /\ lastOp'.err = "BatchPartialError"
               /\ lastOp'.NumSuccess = Len(batch) - k
               /\ lastOp'.NumError = k
               /\ \A i \in DOMAIN batch :
                    lastOp'.marks[i] =
                      IF i \in named THEN "Error"
                      ELSE IF batch[i].mark = "Unmarked" THEN "Success"
                      ELSE batch[i].mark]_vars

\* a batch of a rejected entry and an entry that an earlier attempt marked
\* Error has been written to an Open block
C12_Witness ==
  /\ lastOp.op = "WriteBatch"
  /\ lastOp.err = "BatchPartialError"
  /\ Len(lastOp.batch) = 2
  /\ lastOp.batch[1] = [mark |-> "Unmarked", bad |-> TRUE]
  /\ lastOp.batch[2].mark = "Error"
  /\ lastOp.NumSuccess = 1
  /\ lastOp.NumError = 1

\* C13: when a Query call returns an error, every reader, executor and
\* iterator it acquired has been closed exactly once: the executor whenever
\* every reader was acquired, the iterator whenever Execute succeeded.
C13_QueryReleases ==
  [][(/\ lastOp'.op = "Query"
      /\ \E fail \in QueryFailures : QueryWith(lastOp'.limit, fail)
      /\ lastOp'.err # "nil") =>
       /\ \A i \in DOMAIN lastOp'.readers : lastOp'.readers[i] = 1
       /\ lastOp'.exec = IF lastOp'.err \in {"errUnableToQueryBlockClosed",
                                             "readerError"}
                         THEN -1 ELSE 1
       /\ lastOp'.iter = IF lastOp'.err \in {"errUnableToQueryBlockClosed",
                                             "readerError", "executeError"}
                         THEN -1 ELSE 1
       /\ lastOp'.exec = 1 =>
            Len(lastOp'.readers) =
              Len(ExecutorSegments(activeSegments, shardRangesSegments))]_vars

\* the iterator's Close has failed in a query over two readers
C13_Witness ==
  /\ lastOp.op = "Query"
  /\ lastOp.err = "iteratorCloseError"
  /\ Len(lastOp.readers) >= 2
  /\ lastOp.iter = 1

\* C14: a Seal call on a Sealed or Closed block returns the illegal-state
\* error, leaves the state as it was and seals no segment.
C14_SealRefused ==
  [][(state # "Open" /\ Seal) =>
       /\ lastOp'.err = "errUnableToSealBlockIllegalState"
       /\ UNCHANGED <<state, segs, activeSegments, shardRangesSegments>>]_vars

\* a second Seal has been refused by a Sealed block that holds documents
\* and a bootstrap record
C14_Witness ==
  /\ state = "Sealed"
  /\ lastOp.op = "Seal"
  /\ lastOp.err = "errUnableToSealBlockIllegalState"
  /\ nextDoc > 0
  /\ shardRangesSegments # <<>>

\* C15: a Seal call on an Open block returns no error and leaves the block
\* Sealed, whatever writes, rotation triggers and rotator steps came
\* before, also when a Mutable-tagged active segment is already sealed.
C15_SealOpenSucceeds ==
  [][(state = "Open" /\ Seal) =>
       lastOp'.err = "nil" /\ state' = "Sealed"]_vars

\* C16: Tick on a non-closed block returns the number of active segments
\* (whatever their tag) plus the number of segments of all bootstrap
\* records, and the sum of their sizes, and changes neither state,
\* activeSegments, shardRangesSegments nor the rotation signal.
C16_TickCounts ==
  [][(state # "Closed" /\ Tick) =>
       LET owned == Range(ActiveIds(activeSegments))
                      \cup UNION {Range(shardRangesSegments[r].segments) :
                                    r \in DOMAIN shardRangesSegments}
       IN /\ lastOp'.err = "nil"
          /\ lastOp'.NumSegments = Cardinality(owned)
          /\ lastOp'.NumDocs =
               Cardinality(UNION {{<<id, d>> : d \in segs[id].docs} :
                                    id \in owned})
          /\ UNCHANGED <<state, activeSegments, shardRangesSegments,
                         rotateCh>>]_vars

\* Tick has counted a Rotating segment, a Mutable one and a bootstrap
\* segment while a rotation signal is pending
C16_Witness ==
  /\ lastOp.op = "Tick"
  /\ lastOp.err = "nil"
  /\ lastOp.NumSegments >= 3
  /\ lastOp.NumDocs >= 3
  /\ shardRangesSegments # <<>>
  /\ \E i \in DOMAIN activeSegments :
       activeSegments[i].state = rotatingActiveSegmentState

\* a write into the block as NewBlock left it, by a segment that is not
\* old enough to rotate by age
FreshWrite ==
  /\ lastOp.op = "NewBlock"
  /\ lastOp'.op = "WriteBatch"
  /\ WriteBatch(lastOp'.batch, FALSE)

\* the write path has sealed segment 1, put a new Mutable segment in
\* front of it and raised the rotate signal
SealedAndSignalled ==
  /\ segs'[1].sealed
  /\ Len(segs') = 2 /\ segs'[2] = NewMemSegment
  /\ activeSegments' = <<[seg |-> 2, state |-> mutableActiveSegmentState],
                         [seg |-> 1, state |-> mutableActiveSegmentState]>>
  /\ rotateCh' = 1

\* the rotator has completed one pass over segment 1 and nothing else has
\* allocated a segment
OnePassDone ==
  /\ state = "Open"
  /\ rotPc = "idle"
  /\ shardRangesSegments = <<>>
  /\ Len(segs) = 3
  /\ segs[3].kind = "fst"

\* what holds once the rotator has run: one FST segment with the documents
\* of segment 1, and the Mutable segment allocated by the write path
AfterOnePass ==
  /\ activeSegments = <<[seg |-> 2, state |-> mutableActiveSegmentState],
                        [seg |-> 3, state |-> fstActiveSegmentState]>>
  /\ segs[3].docs = segs[1].docs
  /\ nextDoc = Cardinality(segs[1].docs) => segs[2].docs = {}

\* C17 (as stated): a write into a fresh block that brings the mutable
\* segment's size to the rotation size seals it, allocates a new Mutable
\* segment and raises the rotate signal.
C17_RotationAtSize ==
  [][(FreshWrite /\ nextDoc' >= defaultMutableSegmentRotationSize) =>
       SealedAndSignalled]_vars

\* C17 (amended): a write into a fresh block seals the mutable segment,
\* allocates a new Mutable segment and raises the rotate signal exactly
\* when it brings the size above the rotation size; once the rotator has
\* run, activeSegments holds exactly one FST segment with the written
\* documents and the new Mutable segment (empty if nothing was written
\* since), and a match-all Query returns those documents, exhaustive.
C17_RotationBySize ==
  /\ [][FreshWrite =>
          IF nextDoc' > defaultMutableSegmentRotationSize
          THEN SealedAndSignalled
          ELSE /\ ~segs'[1].sealed
               /\ UNCHANGED <<activeSegments, rotateCh>>]_vars
  /\ [](OnePassDone => AfterOnePass)
  /\ [][(OnePassDone /\ nextDoc = Cardinality(segs[1].docs) /\ Query(0)) =>
          /\ lastOp'.err = "nil"
          /\ lastOp'.results = segs[1].docs
          /\ lastOp'.results = 1..nextDoc
          /\ lastOp'.exhaustive]_vars

\* two documents written at once have been rotated into the FST segment
\* and a match-all query has returned them
C17_Witness ==
  /\ OnePassDone
  /\ segs[1].docs = {1, 2}
  /\ segs[2].docs = {}
  /\ rotateCh = 0
  /\ lastOp.op = "Query"
  /\ lastOp.results = {1, 2}
  /\ lastOp.exhaustive

\* C18: whenever the block is Closed, activeSegments and
\* shardRangesSegments are empty, also when Close ran while a rotation
\* pass had already selected its segments.
C18_ClosedIsEmpty ==
  state = "Closed" => activeSegments = <<>> /\ shardRangesSegments = <<>>

\* the mutable segments the block owns
OwnedMutable ==
  {id \in Range(ActiveIds(activeSegments))
            \cup Range(GroupIds(shardRangesSegments)) :
     IsMutableSegment(segs, id)}

\* C19: whenever the block is Sealed, no mutable segment in activeSegments
\* or in a bootstrap record (also one added after the Seal) is unsealed.
C19_SealedHasNoUnsealed ==
  state = "Sealed" => \A id \in OwnedMutable : IsSealed(segs, id)

\* a Sealed block owns a mutable active segment and a mutable bootstrap
\* segment that arrived after the Seal
C19_Witness ==
  /\ state = "Sealed"
  /\ lastOp.op = "AddResults"
  /\ lastOp.err = "nil"
  /\ \E id \in Range(GroupIds(shardRangesSegments)) : IsMutableSegment(segs, id)
  /\ \E id \in Range(ActiveIds(activeSegments)) : IsMutableSegment(segs, id)

\* C20: whenever the block is Open, exactly one active segment is tagged
\* Mutable, also after a write has sealed the current segment and
\* allocated a new one and before the rotator has run.
C20_ExactlyOneMutable ==
  state = "Open" =>
    Cardinality({i \in DOMAIN activeSegments :
                   activeSegments[i].state = mutableActiveSegmentState}) = 1


\* a step of the write path: the rotator's position and selection stay put
WriteStep ==
  /\ lastOp'.op = "WriteBatch"
  /\ rotPc' = rotPc
  /\ <<segs, activeSegments, rotateCh, nextDoc, lastOp>>' #
       <<segs, activeSegments, rotateCh, nextDoc, lastOp>>

\* sealed segments still tagged Mutable in activeSegments
SealedMutable ==
  {i \in DOMAIN activeSegments :
     /\ activeSegments[i].state = mutableActiveSegmentState
     /\ IsSealed(segs, activeSegments[i].seg)}

NewestMutableFirst ==
  /\ activeSegments # <<>>
  /\ activeSegments[1].state = mutableActiveSegmentState
  /\ ~IsSealed(segs, activeSegments[1].seg)
  /\ \A i \in 2..Len(activeSegments) :
       activeSegments[i].state # fstActiveSegmentState
         => activeSegments[i].seg < activeSegments[1].seg

\* C22: a write on an Open block that leaves its segment due for rotation
\* returns with that segment sealed, a fresh empty Mutable segment first in
\* activeSegments and the rotate signal pending; and in every state of an
\* Open block the first element of activeSegments is the Mutable segment
\* created last, also after the rotator has sorted the sequence.
C22_NewestMutableFirst ==
  /\ [](state = "Open" => NewestMutableFirst)
  /\ [][(WriteStep /\ state = "Open" /\ lastOp'.target # 0
           /\ \E aged \in BOOLEAN :
                /\ RotationDue(SegSize(segs', lastOp'.target), aged)
                /\ WriteBatch(lastOp'.batch, aged)
                /\ aged => Len(segs') > Len(segs))
          => /\ IsSealed(segs', lastOp'.target)
             /\ activeSegments'[1] =
                  [seg |-> Len(segs'), state |-> mutableActiveSegmentState]
             /\ segs'[Len(segs')] = NewMemSegment
             /\ rotateCh' = 1]_vars

\* the tag and seal of segment id in activeSegments before a step
TagOf(id) ==
  LET i == CHOOSE i \in DOMAIN activeSegments : activeSegments[i].seg = id
  IN activeSegments[i].state

\* C23: the segments a rotation pass selects are tagged Mutable and sealed,
\* or tagged FST; the unsealed segment the write path writes into and the
\* segments tagged Rotating are never selected nor re-tagged; and the sizes
\* of the selected segments add up to less than the merge-size ceiling.
C23_SelectionEligible ==
  [][(rotPc = "select" /\ rotPc' # "select")
       => /\ \A id \in Range(rotSel') :
               /\ id \in Range(ActiveIds(activeSegments))
               /\ \/ TagOf(id) = mutableActiveSegmentState /\ IsSealed(segs, id)
                  \/ TagOf(id) = fstActiveSegmentState
          /\ \A i \in DOMAIN activeSegments :
               LET a == activeSegments[i] IN
               \/ [seg |-> a.seg, state |-> a.state] \in Range(activeSegments')
               \/ /\ a.state = mutableActiveSegmentState
                  /\ IsSealed(segs, a.seg)
                  /\ a.seg \in Range(rotSel')
                  /\ [seg |-> a.seg, state |-> rotatingActiveSegmentState]
                       \in Range(activeSegments')
          /\ Len(activeSegments') = Len(activeSegments)
          /\ SumSizes(segs, rotSel')
               < defaultMutableSegmentRotationMergeSize]_vars

\* a pass has selected two segments and stopped at a sealed one that would
\* have reached the ceiling, leaving it beside the unsealed segment
C23_Witness ==
  /\ rotPc = "merge"
  /\ Len(rotSel) >= 2
  /\ \E i \in SealedMutable :
       SumSizes(segs, rotSel) + SegSize(segs, activeSegments[i].seg)
         >= defaultMutableSegmentRotationMergeSize
  /\ \E i \in DOMAIN activeSegments :
       /\ activeSegments[i].state = mutableActiveSegmentState
       /\ ~IsSealed(segs, activeSegments[i].seg)

\* the rotator gives up its pass: from merge, seal or transform to idle
PassFails == rotPc \in {"merge", "seal", "transform"} /\ rotPc' = "idle"

\* C24: a pass that fails at merge, seal or transform removes no segment
\* from activeSegments, adds none and closes none; the selected segments
\* that were Mutable stay tagged Rotating and the selected FST segments
\* stay tagged FST.
C24_FailedPassKeepsSegments ==
  [][PassFails
       => /\ activeSegments' = activeSegments
          /\ segs' = segs
          /\ \A i \in DOMAIN activeSegments' :
               activeSegments'[i].seg \in Range(rotSel)
                 => activeSegments'[i].state =
                      IF IsMutableSegment(segs', activeSegments'[i].seg)
                      THEN rotatingActiveSegmentState
                      ELSE fstActiveSegmentState]_vars

\* a pass that had selected a sealed Mutable segment and the FST segment of
\* an earlier pass has failed: both are still in activeSegments, unclosed
C24_Witness ==
  /\ state = "Open"
  /\ rotPc = "idle"
  /\ \E r, f, m \in DOMAIN activeSegments :
       /\ activeSegments[r].state = rotatingActiveSegmentState
       /\ activeSegments[f].state = fstActiveSegmentState
       /\ activeSegments[m].state = mutableActiveSegmentState
       /\ activeSegments[r].seg < activeSegments[f].seg
       /\ activeSegments[f].seg < activeSegments[m].seg
       /\ segs[activeSegments[r].seg].closed = 0
       /\ segs[activeSegments[f].seg].closed = 0

\* the segments a failed pass has left tagged Rotating, seen when the next
\* pass is about to select
LeftRotating ==
  {activeSegments[i].seg : i \in {j \in DOMAIN activeSegments :
     activeSegments[j].state = rotatingActiveSegmentState}}

\* C25: after a pass has failed at merge or transform, the pass started by
\* the next trigger selects again the segments the failed pass had selected,
\* as long as the active segments still fit under the merge-size ceiling.
C25_FailedPassRetried ==
  [][(/\ rotPc = "select" /\ rotPc' # "select"
      /\ SumSizes(segs, ActiveIds(activeSegments))
           < defaultMutableSegmentRotationMergeSize)
       => LeftRotating \subseteq Range(rotSel')]_vars

\* the documents held across a sequence of active segments
ActiveDocs(sg, as) == UNION {sg[as[i].seg].docs : i \in DOMAIN as}

\* C26: the swap of a successful pass on an Open or Sealed block removes
\* exactly the selected segments and appends one new FST segment; every
\* other active segment stays, in order; and activeSegments holds the same
\* set of documents before and after the swap.
C26_SwapPreservesDocs ==
  [][(rotPc = "swap" /\ rotPc' = "release" /\ state \in {"Open", "Sealed"})
       => /\ activeSegments' =
               SelectSeq(activeSegments, LAMBDA a : a.seg \notin Range(rotSel))
                 \o <<[seg |-> rotNew, state |-> fstActiveSegmentState]>>
          /\ ActiveDocs(segs', activeSegments')
               = ActiveDocs(segs, activeSegments)]_vars

\* the rotator is between its selection and its swap
Merging == rotPc \in {"merge", "seal", "transform"}

\* C27: while the rotator merges, seals the merged segment or transforms it
\* the block lock is free, and WriteBatch, Query, Tick, Seal, AddResults,
\* EvictActiveSegments and Close can each take their step (a write or a
\* bootstrap merge as far as the segment and record bounds leave room; the
\* query is the one whose Execute call fails, which takes the read lock and
\* acquires its readers like any other).
C27_MergeHoldsNoLock ==
  Merging =>
    /\ lock = "free"
    /\ ENABLED QueryWith(0, [kind |-> "execute", at |-> 0])
    /\ ENABLED Tick
    /\ ENABLED Seal
    /\ ENABLED EvictActiveSegments
    /\ ENABLED Close
    /\ (Len(segs) < MaxSegs
          /\ (state = "Open"
                => mutableActiveSegmentWithRLock(activeSegments) # 0))
         => ENABLED WriteBatch(OneDoc, TRUE)
    /\ (Len(segs) < MaxSegs /\ Len(shardRangesSegments) < MaxRecords)
         => \A f \in CoreFulfilled : ENABLED AddResults(f, <<"fst">>)

\* EvictActiveSegments has run to completion between a pass's selection and
\* its swap: the segments the pass selected are closed and no longer active
C27_Witness ==
  /\ rotPc = "transform"
  /\ lock = "free"
  /\ lastOp.op = "EvictActiveSegments"
  /\ lastOp.err = "nil"
  /\ rotSel # <<>>
  /\ \A i \in DOMAIN rotSel : segs[rotSel[i]].closed = 1
  /\ activeSegments = <<>>

\* C28: once Close has closed the block, the rotator and the metrics
\* reporter both terminate, whether or not a rotate signal was pending or
\* a pass was in flight when Close ran.
C28_TasksTerminate ==
  (state = "Closed") ~> (rotPc = "done" /\ reportPc = "done")

\* both tasks have returned after a Close that came while a pass was in
\* flight (the pass went on to swap its FST segment in) and while a
\* further rotate signal was pending (it is still there)
C28_Witness ==
  /\ state = "Closed"
  /\ rotPc = "done"
  /\ reportPc = "done"
  /\ activeSegments # <<>>
  /\ rotateCh = 1

\* C29: a WriteBatch on an Open block hands its insert to an active segment
\* that is not sealed: whatever order the rotator's sort has left and
\* whichever sealed segments it has left tagged Mutable, the first segment
\* tagged Mutable is an unsealed one.
C29_WriteTargetsUnsealed ==
  /\ [](state = "Open" =>
          LET idx == mutableActiveSegmentWithRLock(activeSegments) IN
          idx # 0 /\ ~IsSealed(segs, activeSegments[idx].seg))
  /\ [][(WriteStep /\ state = "Open")
          => /\ lastOp'.target # 0
             /\ ~IsSealed(segs, lastOp'.target)
             /\ lastOp'.err # "unknownWriteBatchInvariantError"]_vars

\* C30: no segment is closed more than once, whatever the interleaving of
\* EvictActiveSegments, Close, the replacement of bootstrap records by
\* AddResults and the rotator's passes; and the rotator neither merges from
\* nor closes a segment that is already closed.
C30_ClosedOnce ==
  /\ [](\A id \in DOMAIN segs : segs[id].closed <= 1)
  /\ [][/\ (rotPc = "merge" /\ rotPc' = "seal")
             => \A i \in DOMAIN rotSel : segs[rotSel[i]].closed = 0
        /\ (rotPc = "release" /\ rotPc' # "release")
             => \A i \in DOMAIN rotSel : segs[rotSel[i]].closed = 0]_vars

\* C31: once EvictActiveSegments has returned without error, activeSegments
\* is empty in every later state, also when a pass that had selected its
\* segments before the eviction swaps after it; and every later successful
\* Tick counts the segments of the bootstrap records only.
C31_EvictedStaysEmpty ==
  /\ [](evicted => activeSegments = <<>>)
  /\ [][(evicted /\ rotPc' = rotPc
           /\ lastOp'.op = "Tick" /\ lastOp'.err = "nil")
          => lastOp'.NumSegments = Len(GroupIds(shardRangesSegments'))]_vars

\* segment id, sealed by the write path and below the merge-size ceiling on
\* its own, is in activeSegments tagged Mutable
SealedByWrite(id) ==
  /\ id \in DOMAIN segs
  /\ IsMutableSegment(segs, id)
  /\ IsSealed(segs, id)
  /\ SegSize(segs, id) < defaultMutableSegmentRotationMergeSize
  /\ \E i \in DOMAIN activeSegments :
       /\ activeSegments[i].seg = id
       /\ activeSegments[i].state = mutableActiveSegmentState

\* segment id has left activeSegments and an FST active segment holds its
\* documents
ReplacedByFst(id) ==
  /\ id \in DOMAIN segs
  /\ \A i \in DOMAIN activeSegments : activeSegments[i].seg # id
  /\ \E i \in DOMAIN activeSegments :
       /\ activeSegments[i].state = fstActiveSegmentState
       /\ segs[id].docs \subseteq segs[activeSegments[i].seg].docs

\* C32: with a fair rotator, no failing merge, seal or transform and a
\* block that is never evicted or closed, every segment the write path has
\* sealed and whose own size is below the merge-size ceiling is eventually
\* replaced by an FST active segment holding its documents.
C32_SealedEventuallyFst ==
  \A id \in 1..MaxSegs : SealedByWrite(id) ~> ReplacedByFst(id)

\* no pass of SpecFair is held at the transform by the segment bound
RoomForTransform == rotPc = "transform" => Len(segs) < MaxSegs
=============================================================================
